---- MODULE Spec2Model ----
(***************************************************************************)
(* harbourmaster: ContainerBuilder::build(), the Container handle and the  *)
(* Docker runtime they drive (src/src/container.rs).                       *)
(*                                                                         *)
(* Strings are sequences of one-character strings, Option<T> is a sequence *)
(* of length 0 (None) or 1 (Some).  Each request to the runtime and its    *)
(* response is one atomic exchange (one .await of the code).               *)
(***************************************************************************)
EXTENDS Integers, Sequences, FiniteSets, TLC

\* ---- bounds -------------------------------------------------------------
NumBuilds == 2      \* build() calls (tasks) of the concurrent specification
MaxStream == 2      \* items of a pull progress stream
MaxSlug   == 2      \* largest slug_length a caller sets
MaxPorts  == 2      \* expose calls on one builder
MaxEnv    == 1      \* environment_variable calls on one builder

Builds == 1..NumBuilds

\* the ids the daemon hands out, in order: non-empty strings
Digits == <<"1","2","3","4","5","6","7","8","9">>
DockerId(n) == <<"c", Digits[n]>>
ContainerIds == { DockerId(n) : n \in 1..NumBuilds }
NetworkId(n) == <<"n", Digits[n]>>
NetworkIds == { NetworkId(n) : n \in 1..NumBuilds }

None == <<>>
Some(v) == <<v>>

\* ---- inputs -------------------------------------------------------------
ImageNames == { <<"a","l","p","i","n","e">> }
Names == { <<"x">>, <<>> }          \* container names a caller sets ("" is accepted)
Tags == { <<"v">>, <<>> }           \* tags a caller sets ("" is accepted)
Exposes ==                          \* expose(src_port, host_port, protocol) calls
    { [src_port |-> 80, host_port |-> 8080, protocol |-> "Tcp"],
      [src_port |-> 80, host_port |-> 8081, protocol |-> "Udp"] }
EnvVars == { <<"K","=","V">> }
CommandLists == { <<>>, << <<"s","h">> >> }
NetworkNames == { <<"n","e","t">>, <<>> }
Streams == UNION { [1..n -> {"Ok", "Err"}] : n \in 0..MaxStream }
\* The characters of rand's Alphanumeric distribution, and the ones drawn here.
AlphanumericChars ==
    { "a","b","c","d","e","f","g","h","i","j","k","l","m","n","o","p","q","r","s","t",
      "u","v","w","x","y","z","A","B","C","D","E","F","G","H","I","J","K","L","M","N",
      "O","P","Q","R","S","T","U","V","W","X","Y","Z","0","1","2","3","4","5","6","7",
      "8","9" }
Alphanumeric == { "q", "7" }
Samples == [1..MaxSlug -> Alphanumeric]   \* the first draws of thread_rng()

VARIABLES
    builder,     \* builder[b]: the ContainerBuilder of build b
    pc,          \* pc[b]: where build b is
    stream,      \* stream[b]: the progress stream the runtime returned to pull
    pos,         \* pos[b]: items of stream[b] consumed so far
    createInfo,  \* createInfo[b]: Option of the id create returned
    container,   \* container[b]: Option of the Container build returned
    held,        \* held[b]: what the caller did with the Container
    result,      \* result[b]: what build() returned
    delResult,   \* delResult[b]: what delete() returned
    reqs,        \* reqs[b]: the requests sent for b, in order
    slugCalls,   \* slugCalls[b]: slugs generated for b
    containers,  \* the runtime: containers[id]
    given,       \* given[b]: what the caller passed to tag, client and expose
    CLIENT,      \* the lazy static CLIENT: the instances its initializer made
    net,         \* net[b]: the NetworkBuilder of b, its build and its Network
    networks     \* the runtime: networks[id]

vars == <<builder, pc, stream, pos, createInfo, container, held, result,
          delResult, reqs, slugCalls, containers, given, CLIENT, net, networks>>

\* ---- ContainerBuilder ---------------------------------------------------
\* a Client is known by the shiplift::Docker it shares: who made it, and which
Docker(made_by, n) == [made_by |-> made_by, n |-> n]

\* the Docker of the lazy static CLIENT, made by the one run of its initializer
GlobalClient == Docker("CLIENT", 1)
Clients == { Docker("caller", 1) }  \* clients a caller passes to client(c)

\* (mutant) every access makes a new Docker: Client::new() for Client::default()
CLIENT_deref_again == Append(CLIENT, Docker("CLIENT", Len(CLIENT) + 1))

\* the static after `&CLIENT`: lazy_static runs `Client::new()` on the first
\* access only
CLIENT_deref == IF CLIENT = <<>> THEN <<GlobalClient>> ELSE CLIENT

\* global_client(): Client::from(&CLIENT), a clone of the Arc
global_client == CLIENT_deref[Len(CLIENT_deref)]

\* (mutant) a builder that pulls unless told otherwise
ContainerBuilder_new_pulls(image_name) ==
    [ image_name |-> image_name,
      image_tag |-> <<"l","a","t","e","s","t">>,
      name |-> None,
      ports |-> <<>>,
      commands |-> <<>>,
      environment_variables |-> <<>>,
      client |-> global_client,
      pull_on_build |-> TRUE,
      slug_length |-> 0 ]

\* ContainerBuilder::new
ContainerBuilder_new(image_name) ==
    [ image_name |-> image_name,
      image_tag |-> <<"l","a","t","e","s","t">>,
      name |-> None,
      ports |-> <<>>,
      commands |-> <<>>,
      environment_variables |-> <<>>,
      client |-> global_client,
      pull_on_build |-> FALSE,
      slug_length |-> 0 ]

\* (mutant) the tag is left out of the reference
image_latest(self) == self.image_name \o <<":","l","a","t","e","s","t">>

\* ContainerBuilder::image: format!("{}:{}", image_name, image_tag)
image(self) == self.image_name \o <<":">> \o self.image_tag

Take(s, n) == SubSeq(s, 1, IF n < Len(s) THEN n ELSE Len(s))

\* (mutant) one character short: take(self.slug_length - 1)
slugged_name_short(self, rng) ==
    IF self.name = None THEN None
    ELSE IF self.slug_length > 0
         THEN Some(self.name[1] \o <<"_">> \o Take(rng, self.slug_length - 1))
         ELSE Some(self.name[1])

\* (mutant) a slug is appended even when slug_length is 0
slugged_name_always(self, rng) ==
    IF self.name = None THEN None
    ELSE Some(self.name[1] \o <<"_">>
                \o Take(rng, IF self.slug_length > 0 THEN self.slug_length ELSE 1))

\* slugged_name with rng the draws of thread_rng()
slugged_name(self, rng) ==
    IF self.name = None THEN None
    ELSE IF self.slug_length > 0
         THEN Some(self.name[1] \o <<"_">> \o Take(rng, self.slug_length))
         ELSE Some(self.name[1])

\* whether slugged_name samples the generator
GeneratesSlug(self) == self.name # None /\ self.slug_length > 0

\* Protocol::as_ref: the wire string
Protocol_as_ref(protocol) ==
    IF protocol = "Tcp" THEN <<"t","c","p">> ELSE <<"u","d","p">>

\* NetworkBuilder::new
NetworkBuilder_new(nm) == [client |-> global_client, options |-> [name |-> nm]]

\* nothing of the network API has been called
NoNetwork ==
    [ pc |-> "new", builder |-> None, create_info |-> None, network |-> None,
      held |-> "none", result |-> "pending", delResult |-> "pending",
      reqs |-> <<>> ]

\* what every initial state shares: no build has started, the runtime is empty
InitRest ==
    /\ stream = [b \in Builds |-> <<>>]
    /\ pos = [b \in Builds |-> 0]
    /\ createInfo = [b \in Builds |-> None]
    /\ container = [b \in Builds |-> None]
    /\ held = [b \in Builds |-> "none"]
    /\ result = [b \in Builds |-> "pending"]
    /\ delResult = [b \in Builds |-> "pending"]
    /\ reqs = [b \in Builds |-> <<>>]
    /\ slugCalls = [b \in Builds |-> 0]
    /\ containers = [i \in ContainerIds |-> [state |-> "absent", name |-> None, ports |-> <<>>,
                                   removed_by |-> "nobody"]]
    /\ given = [b \in Builds |-> [tag |-> None, client |-> None, exposes |-> <<>>]]
    /\ net = [b \in Builds |-> NoNetwork]
    /\ networks = [i \in NetworkIds |-> [state |-> "absent", name |-> <<>>,
                                         in_use |-> FALSE, removed_by |-> "nobody"]]

\* before any builder is made: the static CLIENT has not been accessed
InitNew ==
    /\ CLIENT = <<>>
    /\ builder = [b \in Builds |-> None]
    /\ pc = [b \in Builds |-> "new"]
    /\ InitRest

\* every builder has been made by ContainerBuilder::new
Init ==
    /\ CLIENT = <<GlobalClient>>
    /\ builder \in [Builds -> { ContainerBuilder_new(i) : i \in ImageNames }]
    /\ pc = [b \in Builds |-> "builder"]
    /\ InitRest

\* ---- the fluent configuration API (each consumes and returns the builder) --
name(b, n) ==
    /\ UNCHANGED <<given, CLIENT, net, networks>>
    /\ pc[b] = "builder"
    /\ builder' = [builder EXCEPT ![b].name = Some(n)]
    /\ UNCHANGED <<pc, stream, pos, createInfo, container, held, result,
                   delResult, reqs, slugCalls, containers>>

slug_length(b, length) ==
    /\ UNCHANGED <<given, CLIENT, net, networks>>
    /\ pc[b] = "builder"
    /\ builder' = [builder EXCEPT ![b].slug_length = length]
    /\ UNCHANGED <<pc, stream, pos, createInfo, container, held, result,
                   delResult, reqs, slugCalls, containers>>

\* Container::builder(image_name) -> ContainerBuilder::new
new(b, image_name) ==
    /\ pc[b] = "new"
    /\ CLIENT' = CLIENT_deref
    /\ builder' = [builder EXCEPT ![b] = ContainerBuilder_new(image_name)]
    /\ pc' = [pc EXCEPT ![b] = "builder"]
    /\ UNCHANGED <<stream, pos, createInfo, container, held, result, delResult,
                   reqs, slugCalls, containers, given, net, networks>>

tag(b, t) ==
    /\ pc[b] = "builder"
    /\ builder' = [builder EXCEPT ![b].image_tag = t]
    /\ given' = [given EXCEPT ![b].tag = Some(t)]
    /\ UNCHANGED <<pc, stream, pos, createInfo, container, held, result,
                   delResult, reqs, slugCalls, containers, CLIENT, net, networks>>

client(b, c) ==
    /\ pc[b] = "builder"
    /\ builder' = [builder EXCEPT ![b].client = c]
    /\ given' = [given EXCEPT ![b].client = Some(c)]
    /\ UNCHANGED <<pc, stream, pos, createInfo, container, held, result,
                   delResult, reqs, slugCalls, containers, CLIENT, net, networks>>

\* (mutant) a later expose of a source port replaces the earlier one
expose_dedup(b, call) ==
    /\ pc[b] = "builder"
    /\ Len(builder[b].ports) < MaxPorts
    /\ builder' = [builder EXCEPT ![b].ports =
                      Append(SelectSeq(@, LAMBDA p : p.source # call.src_port),
                             [source |-> call.src_port, host |-> call.host_port,
                              protocol |-> call.protocol])]
    /\ given' = [given EXCEPT ![b].exposes = Append(@, call)]
    /\ UNCHANGED <<pc, stream, pos, createInfo, container, held, result,
                   delResult, reqs, slugCalls, containers, CLIENT, net, networks>>

\* self.ports.push(Port { .. }): u16 into u32 keeps the number
expose(b, call) ==
    /\ pc[b] = "builder"
    /\ Len(builder[b].ports) < MaxPorts
    /\ builder' = [builder EXCEPT ![b].ports =
                      Append(@, [source |-> call.src_port, host |-> call.host_port,
                                 protocol |-> call.protocol])]
    /\ given' = [given EXCEPT ![b].exposes = Append(@, call)]
    /\ UNCHANGED <<pc, stream, pos, createInfo, container, held, result,
                   delResult, reqs, slugCalls, containers, CLIENT, net, networks>>

environment_variable(b, env) ==
    /\ pc[b] = "builder"
    /\ Len(builder[b].environment_variables) < MaxEnv
    /\ builder' = [builder EXCEPT ![b].environment_variables = Append(@, env)]
    /\ UNCHANGED <<pc, stream, pos, createInfo, container, held, result,
                   delResult, reqs, slugCalls, containers, given, CLIENT, net,
                   networks>>

commands(b, cmds) ==
    /\ pc[b] = "builder"
    /\ builder' = [builder EXCEPT ![b].commands = cmds]
    /\ UNCHANGED <<pc, stream, pos, createInfo, container, held, result,
                   delResult, reqs, slugCalls, containers, given, CLIENT, net,
                   networks>>

\* (mutant) pull_on_build(true) pulls the image at once
pull_on_build_eager(b, pull) ==
    /\ pc[b] = "builder"
    /\ builder' = [builder EXCEPT ![b].pull_on_build = pull]
    /\ reqs' = [reqs EXCEPT ![b] =
                   IF pull
                   THEN Append(@, [req |-> [by |-> "build", op |-> "pull",
                                            client |-> builder[b].client,
                                            image |-> image(builder[b])],
                                   answer |-> "Ok", ok |-> TRUE])
                   ELSE @]
    /\ UNCHANGED <<pc, stream, pos, createInfo, container, held, result,
                   delResult, slugCalls, containers, given, CLIENT, net, networks>>

pull_on_build(b, pull) ==
    /\ UNCHANGED <<given, CLIENT, net, networks>>
    /\ pc[b] = "builder"
    /\ builder' = [builder EXCEPT ![b].pull_on_build = pull]
    /\ UNCHANGED <<pc, stream, pos, createInfo, container, held, result,
                   delResult, reqs, slugCalls, containers>>

\* ---- the runtime (Docker, through shiplift) -------------------------------
Live(id) == containers[id].state \in {"created", "running", "exited"}

\* the id the daemon gives the next container
FreshId ==
    DockerId(CHOOSE n \in 1..NumBuilds :
               /\ containers[DockerId(n)].state = "absent"
               /\ \A m \in 1..NumBuilds :
                    containers[DockerId(m)].state = "absent" => n <= m)

\* POST /containers/create: a name in use is a conflict (409)
RtCreate(nm, fault) ==
    IF nm # None /\ \E i \in ContainerIds : Live(i) /\ containers[i].name = nm
    THEN "Conflict"
    ELSE IF fault THEN "Error" ELSE "Ok"

\* POST /containers/{id}/start
RtStart(id, fault) ==
    IF ~Live(id) THEN "NotFound"
    ELSE IF fault \/ containers[id].state # "created" THEN "Error" ELSE "Ok"

\* GET /containers/{id}/json
RtInspect(id, fault) ==
    IF ~Live(id) THEN "NotFound" ELSE IF fault THEN "Error" ELSE "Ok"

\* (mutant) the Container is made of ContainerDetails::default()
ContainerDetails_blank(id) == [id |-> <<>>, ports |-> <<>>]

\* (mutant) the details are those of the container made last, whichever
\* build made it
ContainerDetails_latest(id) ==
    LET n == CHOOSE n \in 1..NumBuilds :
                 /\ containers[DockerId(n)].state # "absent"
                 /\ \A m \in (n + 1)..NumBuilds :
                      containers[DockerId(m)].state = "absent"
    IN [id |-> DockerId(n), ports |-> containers[DockerId(n)].ports]

\* the ContainerDetails the runtime answers an inspect with
ContainerDetails(id) == [id |-> id, ports |-> containers[id].ports]

\* DELETE /containers/{id}?force=: a running container needs force (409)
RtRemove(id, opts) ==
    IF ~Live(id) THEN "NotFound"
    ELSE IF ~opts.force /\ containers[id].state = "running" THEN "Conflict"
    ELSE "Ok"

\* POST /images/create: a pull whose progress stream carries an error has failed
RtPull(s) == IF \E i \in 1..Len(s) : s[i] = "Err" THEN "Error" ELSE "Ok"

\* an exchange as logged: the request and the runtime's answer
Exchange(r, answer) == [req |-> r, answer |-> answer, ok |-> answer = "Ok"]

\* the request r goes out and the runtime answers
Send(b, r, answer) == reqs' = [reqs EXCEPT ![b] = Append(@, Exchange(r, answer))]

\* ---- ContainerBuilder::build ----------------------------------------------
\* build() is called: the builder is consumed, image and commands are computed
build(b) ==
    /\ UNCHANGED <<given, CLIENT, net, networks>>
    /\ pc[b] = "builder"
    /\ pc' = [pc EXCEPT ![b] = IF builder[b].pull_on_build
                               THEN "pull_image" ELSE "create_container"]
    /\ UNCHANGED <<builder, stream, pos, createInfo, container, held, result,
                   delResult, reqs, slugCalls, containers>>

\* client.images().pull(..): the runtime answers with a progress stream
pull_image(b) ==
    /\ UNCHANGED <<given, CLIENT, net, networks>>
    /\ pc[b] = "pull_image"
    /\ \E s \in Streams :
         /\ stream' = [stream EXCEPT ![b] = s]
         /\ Send(b, [by |-> "build", op |-> "pull", client |-> builder[b].client,
                     image |-> image(builder[b])], RtPull(s))
    /\ pos' = [pos EXCEPT ![b] = 0]
    /\ pc' = [pc EXCEPT ![b] = "pull_next"]
    /\ UNCHANGED <<builder, createInfo, container, held, result, delResult,
                   slugCalls, containers>>

\* stream.next().await
StreamNext(b) ==
    IF pos[b] < Len(stream[b]) THEN Some(stream[b][pos[b] + 1]) ELSE None

\* one turn of `while let Some(Ok(chunk)) = stream.next().await`: any other
\* item (None, or Some(Err(_))) ends the loop and pull_image returns Ok(()),
\* so the `?` of build never returns
pull_next(b) ==
    /\ UNCHANGED <<given, CLIENT, net, networks>>
    /\ pc[b] = "pull_next"
    /\ LET item == StreamNext(b) IN
         /\ pos' = [pos EXCEPT ![b] = IF item = None THEN @ ELSE @ + 1]
         /\ pc' = [pc EXCEPT ![b] = IF item = Some("Ok") THEN "pull_next"
                                    ELSE "create_container"]
    /\ UNCHANGED <<builder, stream, createInfo, container, held, result,
                   delResult, reqs, slugCalls, containers>>

\* the options create_container submits
ContainerOptions(self, container_name) ==
    [ by |-> "build", op |-> "create", client |-> self.client,
      image |-> image(self), name |-> container_name,
      ports |-> [i \in 1..Len(self.ports) |->
                   [source |-> self.ports[i].source,
                    protocol |-> Protocol_as_ref(self.ports[i].protocol),
                    host |-> self.ports[i].host]],
      env |-> self.environment_variables, cmd |-> self.commands ]

\* create_container(..).await? with the runtime's answer
create_container(b) ==
    /\ UNCHANGED <<given, CLIENT, net, networks>>
    /\ pc[b] = "create_container"
    /\ \E rng \in Samples, fault \in BOOLEAN :
         LET opts == ContainerOptions(builder[b], slugged_name(builder[b], rng))
             id == FreshId
             answer == RtCreate(opts.name, fault)
         IN /\ Send(b, opts, answer)
            /\ IF answer = "Ok"
               THEN /\ containers' = [containers EXCEPT ![id] =
                          [state |-> "created", name |-> opts.name,
                           ports |-> opts.ports, removed_by |-> "nobody"]]
                    /\ createInfo' = [createInfo EXCEPT ![b] = Some(id)]
                    /\ pc' = [pc EXCEPT ![b] = "run_container"]
                    /\ UNCHANGED result
               ELSE /\ pc' = [pc EXCEPT ![b] = "returned"]
                    /\ result' = [result EXCEPT ![b] = "CreateFailed"]
                    /\ UNCHANGED <<containers, createInfo>>
    /\ slugCalls' = [slugCalls EXCEPT ![b] =
                        IF GeneratesSlug(builder[b]) THEN @ + 1 ELSE @]
    /\ UNCHANGED <<builder, stream, pos, container, held, delResult>>

\* (mutant) the result of run_container is dropped and build goes on
run_container_err_ignored(b) ==
    /\ pc' = [pc EXCEPT ![b] = "inspect_container"]
    /\ UNCHANGED result

\* build after run_container returned Err: `?` returns the error
run_container_err(b) ==
    /\ pc' = [pc EXCEPT ![b] = "returned"]
    /\ result' = [result EXCEPT ![b] = "StartFailed"]

\* run_container(&self.client, &id).await? with the runtime's answer
run_container(b) ==
    /\ UNCHANGED <<given, CLIENT, net, networks>>
    /\ pc[b] = "run_container"
    /\ \E fault \in BOOLEAN :
         LET id == createInfo[b][1]
             answer == RtStart(id, fault)
         IN /\ Send(b, [by |-> "build", op |-> "start",
                        client |-> builder[b].client, id |-> id], answer)
            /\ IF answer = "Ok"
               THEN /\ containers' = [containers EXCEPT ![id].state = "running"]
                    /\ pc' = [pc EXCEPT ![b] = "inspect_container"]
                    /\ UNCHANGED result
               ELSE /\ run_container_err(b)
                    /\ UNCHANGED containers
    /\ UNCHANGED <<builder, stream, pos, createInfo, container, held,
                   delResult, slugCalls>>

\* (mutant) build removes the container when inspect fails
inspect_container_cleanup(b) ==
    /\ UNCHANGED <<given, CLIENT, net, networks>>
    /\ pc[b] = "inspect_container"
    /\ \E fault \in BOOLEAN :
         LET id == createInfo[b][1]
             answer == RtInspect(id, fault)
             sent == Append(reqs[b],
                        Exchange([by |-> "build", op |-> "inspect",
                                  client |-> builder[b].client, id |-> id],
                                 answer))
         IN IF answer = "Ok"
            THEN /\ reqs' = [reqs EXCEPT ![b] = sent]
                 /\ container' = [container EXCEPT ![b] =
                       Some([details |-> ContainerDetails(id),
                             client |-> builder[b].client])]
                 /\ held' = [held EXCEPT ![b] = "held"]
                 /\ result' = [result EXCEPT ![b] = "Ok"]
                 /\ UNCHANGED containers
            ELSE /\ reqs' = [reqs EXCEPT ![b] = Append(sent,
                        Exchange([by |-> "build", op |-> "remove",
                                  client |-> builder[b].client, id |-> id,
                                  force |-> TRUE], "Ok"))]
                 /\ containers' = [containers EXCEPT ![id].state = "removed",
                                                     ![id].removed_by = "layer"]
                 /\ result' = [result EXCEPT ![b] = "InspectFailed"]
                 /\ UNCHANGED <<container, held>>
    /\ pc' = [pc EXCEPT ![b] = "returned"]
    /\ UNCHANGED <<builder, stream, pos, createInfo, delResult, slugCalls>>

\* inspect_container(&self.client, &id).await?, then Ok(Container { .. })
inspect_container(b) ==
    /\ UNCHANGED <<given, CLIENT, net, networks>>
    /\ pc[b] = "inspect_container"
    /\ \E fault \in BOOLEAN :
         LET id == createInfo[b][1]
             answer == RtInspect(id, fault)
         IN /\ Send(b, [by |-> "build", op |-> "inspect",
                        client |-> builder[b].client, id |-> id], answer)
            /\ IF answer = "Ok"
               THEN /\ container' = [container EXCEPT ![b] =
                          Some([details |-> ContainerDetails(id),
                                client |-> builder[b].client])]
                    /\ held' = [held EXCEPT ![b] = "held"]
                    /\ result' = [result EXCEPT ![b] = "Ok"]
               ELSE /\ result' = [result EXCEPT ![b] = "InspectFailed"]
                    /\ UNCHANGED <<container, held>>
    /\ pc' = [pc EXCEPT ![b] = "returned"]
    /\ UNCHANGED <<builder, stream, pos, createInfo, delResult, slugCalls,
                   containers>>

\* ---- Container -------------------------------------------------------------
\* Container::id
Container_id(self) == self.details.id

\* Container::ports_raw
Container_ports_raw(self) == self.details.ports

\* the caller reads id(): a borrow of the Container, nothing else
get_id(b) ==
    /\ held[b] = "held"
    /\ UNCHANGED vars

\* the caller reads ports_raw()
get_ports_raw(b) ==
    /\ held[b] = "held"
    /\ UNCHANGED vars

\* (mutant) removal without force
RmContainerOptions_no_force == [force |-> FALSE]

\* RmContainerOptions::builder().force(true).build()
RmContainerOptions == [force |-> TRUE]

\* (mutant) delete swallows the runtime's error
delete_result_masked(answer) == "Ok"

\* what delete returns for the runtime's answer: the answer itself
delete_result(answer) == IF answer = "Ok" THEN "Ok" ELSE "DeleteFailed"

\* Container::delete(self)
delete(b) ==
    /\ UNCHANGED <<given, CLIENT, net, networks>>
    /\ held[b] = "held"
    /\ LET self == container[b][1]
           id == Container_id(self)
           opts == RmContainerOptions
           answer == RtRemove(id, opts)
       IN /\ Send(b, [by |-> "delete", op |-> "remove", client |-> self.client,
                      id |-> id, force |-> opts.force], answer)
          /\ delResult' = [delResult EXCEPT ![b] = delete_result(answer)]
          /\ containers' = IF answer = "Ok"
                           THEN [containers EXCEPT ![id].state = "removed",
                                                   ![id].removed_by = "layer"]
                           ELSE containers
    /\ held' = [held EXCEPT ![b] = "consumed"]
    /\ UNCHANGED <<builder, pc, stream, pos, createInfo, container, result,
                   slugCalls>>

\* (mutant) a Drop implementation that removes the container
Drop_removes(b) ==
    /\ UNCHANGED <<given, CLIENT, net, networks>>
    /\ held[b] = "held"
    /\ held' = [held EXCEPT ![b] = "dropped"]
    /\ LET id == Container_id(container[b][1])
           opts == RmContainerOptions
           answer == RtRemove(id, opts)
       IN /\ Send(b, [by |-> "drop", op |-> "remove",
                      client |-> container[b][1].client,
                      id |-> id, force |-> opts.force], answer)
          /\ containers' = IF answer = "Ok"
                           THEN [containers EXCEPT ![id].state = "removed",
                                                   ![id].removed_by = "layer"]
                           ELSE containers
    /\ UNCHANGED <<builder, pc, stream, pos, createInfo, container, result,
                   delResult, slugCalls>>

\* the Container goes out of scope: the struct has no Drop implementation
Drop(b) ==
    /\ UNCHANGED <<given, CLIENT, net, networks>>
    /\ held[b] = "held"
    /\ held' = [held EXCEPT ![b] = "dropped"]
    /\ UNCHANGED <<builder, pc, stream, pos, createInfo, container, result,
                   delResult, reqs, slugCalls, containers>>

\* ---- what happens to a container out-of-band while its Container is held ---
\* `docker rm -f` by someone else
OutOfBandRemove(b) ==
    /\ UNCHANGED <<given, CLIENT, net, networks>>
    /\ held[b] = "held"
    /\ Live(Container_id(container[b][1]))
    /\ containers' = [containers EXCEPT
                        ![Container_id(container[b][1])].state = "removed",
                        ![Container_id(container[b][1])].removed_by = "out-of-band"]
    /\ UNCHANGED <<builder, pc, stream, pos, createInfo, container, held,
                   result, delResult, reqs, slugCalls>>

\* the container's process ends
Exit(b) ==
    /\ UNCHANGED <<given, CLIENT, net, networks>>
    /\ held[b] = "held"
    /\ containers[Container_id(container[b][1])].state = "running"
    /\ containers' = [containers EXCEPT ![Container_id(container[b][1])].state = "exited"]
    /\ UNCHANGED <<builder, pc, stream, pos, createInfo, container, held,
                   result, delResult, reqs, slugCalls>>

\* ---- specifications --------------------------------------------------------
\* the operations of build b and of the Container it returns
Pipeline(b) ==
    \/ build(b)
    \/ pull_image(b)
    \/ pull_next(b)
    \/ create_container(b)
    \/ run_container(b)
    \/ inspect_container(b)
    \/ delete(b)
    \/ Drop(b)
    \/ OutOfBandRemove(b)
    \/ Exit(b)

\* one build, every configuration
Next ==
    \/ \E n \in Names : name(1, n)
    \/ \E k \in 0..MaxSlug : slug_length(1, k)
    \/ \E p \in BOOLEAN : pull_on_build(1, p)
    \/ Pipeline(1)

Spec == Init /\ [][Next]_vars

\* several builds running concurrently against the shared client
NextConc ==
    \/ \E b \in Builds : name(b, <<"x">>)
    \/ \E b \in Builds : \E k \in 0..1 : slug_length(b, k)
    \/ \E b \in Builds : build(b)
    \/ \E b \in Builds : create_container(b)
    \/ \E b \in Builds : run_container(b)
    \/ \E b \in Builds : inspect_container(b)
    \/ \E b \in Builds : delete(b)

SpecConc == Init /\ [][NextConc]_vars

\* ---- Network ---------------------------------------------------------------
\* the network ids the runtime has not handed out, smallest first
FreshNetworkId ==
    NetworkId(CHOOSE n \in 1..NumBuilds :
                /\ networks[NetworkId(n)].state = "absent"
                /\ \A m \in 1..(n - 1) : networks[NetworkId(m)].state # "absent")

\* Network::builder(name) / Network::new(name): NetworkBuilder::new
Network_builder(b, nm) ==
    /\ net[b].pc = "new"
    /\ CLIENT' = CLIENT_deref
    /\ net' = [net EXCEPT ![b].builder = Some(NetworkBuilder_new(nm)),
                          ![b].pc = "builder"]
    /\ UNCHANGED <<builder, pc, stream, pos, createInfo, container, held, result,
                   delResult, reqs, slugCalls, containers, given, networks>>

\* the runtime's answer to a network create
RtNetworkCreate(fault) == IF fault THEN "Error" ELSE "Ok"

\* the runtime's answer to a network delete: a network with attached
\* endpoints is not removed
RtNetworkRemove(id) ==
    IF networks[id].state # "present" THEN "NotFound"
    ELSE IF networks[id].in_use THEN "Forbidden" ELSE "Ok"

\* (mutant) build also inspects what it made, as the container pipeline does
NetworkBuilder_requests_inspect == <<"network_create", "network_inspect">>

\* the requests NetworkBuilder::build makes: networks().create(&options)
NetworkBuilder_requests == <<"network_create">>

\* NetworkBuilder::build
NetworkBuilder_build(b) ==
    /\ net[b].pc = "builder"
    /\ \E fault \in BOOLEAN :
         LET self == net[b].builder[1]
             id == FreshNetworkId
             answer == RtNetworkCreate(fault)
             sent == [i \in 1..(IF answer = "Ok" THEN Len(NetworkBuilder_requests)
                                ELSE 1) |->
                        Exchange([by |-> "build", op |-> NetworkBuilder_requests[i],
                                  client |-> self.client,
                                  name |-> self.options.name], answer)]
         IN IF answer = "Ok"
            THEN /\ networks' = [networks EXCEPT ![id] =
                       [state |-> "present", name |-> self.options.name,
                        in_use |-> FALSE, removed_by |-> "nobody"]]
                 /\ net' = [net EXCEPT ![b].reqs = @ \o sent,
                                       ![b].create_info = Some(id),
                                       ![b].network = Some([id |-> id,
                                                            client |-> self.client]),
                                       ![b].held = "held",
                                       ![b].result = "Ok",
                                       ![b].pc = "returned"]
            ELSE /\ net' = [net EXCEPT ![b].reqs = @ \o sent,
                                       ![b].result = "CreateFailed",
                                       ![b].pc = "returned"]
                 /\ UNCHANGED networks
    /\ UNCHANGED <<builder, pc, stream, pos, createInfo, container, held, result,
                   delResult, reqs, slugCalls, containers, given, CLIENT>>

\* Network::id
Network_id(self) == self.id

\* the caller reads Network::id()
Network_get_id(b) ==
    /\ net[b].held = "held"
    /\ UNCHANGED vars

\* (mutant) Network::delete by way of a forced disconnect of every endpoint
Network_delete_answer_forced(id) ==
    IF networks[id].state # "present" THEN "NotFound" ELSE "Ok"

\* the answer to self.client.networks().get(&self.id).delete(): the request
\* has no options, the runtime decides by the network's state
Network_delete_answer(id) == RtNetworkRemove(id)

\* Network::delete(self)
Network_delete(b) ==
    /\ net[b].held = "held"
    /\ LET self == net[b].network[1]
           id == Network_id(self)
           answer == Network_delete_answer(id)
       IN /\ net' = [net EXCEPT
                       ![b].reqs = Append(@, Exchange([by |-> "delete",
                                      op |-> "network_delete",
                                      client |-> self.client, id |-> id], answer)),
                       ![b].delResult = delete_result(answer),
                       ![b].held = "consumed"]
          /\ networks' = IF answer = "Ok"
                         THEN [networks EXCEPT ![id].state = "removed",
                                               ![id].removed_by = "layer"]
                         ELSE networks
    /\ UNCHANGED <<builder, pc, stream, pos, createInfo, container, held, result,
                   delResult, reqs, slugCalls, containers, given, CLIENT>>

\* the Network goes out of scope: Network has no Drop implementation
Network_Drop(b) ==
    /\ net[b].held = "held"
    /\ net' = [net EXCEPT ![b].held = "dropped"]
    /\ UNCHANGED <<builder, pc, stream, pos, createInfo, container, held, result,
                   delResult, reqs, slugCalls, containers, given, CLIENT, networks>>

\* environment: a container is attached to the network by other means
NetworkAttach(b) ==
    /\ net[b].held = "held"
    /\ networks[Network_id(net[b].network[1])].state = "present"
    /\ ~networks[Network_id(net[b].network[1])].in_use
    /\ networks' = [networks EXCEPT ![Network_id(net[b].network[1])].in_use = TRUE]
    /\ UNCHANGED <<builder, pc, stream, pos, createInfo, container, held, result,
                   delResult, reqs, slugCalls, containers, given, CLIENT, net>>

\* environment: the network is removed by other means
NetworkOutOfBandRemove(b) ==
    /\ net[b].held = "held"
    /\ networks[Network_id(net[b].network[1])].state = "present"
    /\ networks' = [networks EXCEPT
                      ![Network_id(net[b].network[1])].state = "removed",
                      ![Network_id(net[b].network[1])].removed_by = "out-of-band"]
    /\ UNCHANGED <<builder, pc, stream, pos, createInfo, container, held, result,
                   delResult, reqs, slugCalls, containers, given, CLIENT, net>>

\* one build with every setter and accessor of the fluent API
NextBuilder ==
    \/ \E i \in ImageNames : new(1, i)
    \/ \E t \in Tags : tag(1, t)
    \/ name(1, <<"x">>)
    \/ \E k \in 0..1 : slug_length(1, k)
    \/ \E call \in Exposes : expose(1, call)
    \/ \E env \in EnvVars : environment_variable(1, env)
    \/ \E cmds \in CommandLists : commands(1, cmds)
    \/ \E p \in BOOLEAN : pull_on_build(1, p)
    \/ \E c \in Clients : client(1, c)
    \/ build(1)
    \/ pull_image(1)
    \/ pull_next(1)
    \/ create_container(1)
    \/ run_container(1)
    \/ inspect_container(1)
    \/ get_id(1)
    \/ get_ports_raw(1)
    \/ delete(1)

SpecBuilder == InitNew /\ [][NextBuilder]_vars

\* networks made, deleted and dropped
NextNet ==
    \/ \E b \in Builds : \E nm \in NetworkNames : Network_builder(b, nm)
    \/ \E b \in Builds : NetworkBuilder_build(b)
    \/ \E b \in Builds : Network_get_id(b)
    \/ \E b \in Builds : Network_delete(b)
    \/ \E b \in Builds : Network_Drop(b)
    \/ \E b \in Builds : NetworkAttach(b)
    \/ \E b \in Builds : NetworkOutOfBandRemove(b)

SpecNet == Init /\ [][NextNet]_vars

\* builders made with the shared client or a caller's, built and deleted
NextClient ==
    \/ \E b \in Builds : \E i \in ImageNames : new(b, i)
    \/ \E b \in Builds : \E c \in Clients : client(b, c)
    \/ \E b \in Builds : build(b)
    \/ \E b \in Builds : create_container(b)
    \/ \E b \in Builds : run_container(b)
    \/ \E b \in Builds : inspect_container(b)
    \/ \E b \in Builds : delete(b)

SpecClient == InitNew /\ [][NextClient]_vars

\* ---- reading the request log -------------------------------------------------
IsBuildReq(e) == e.req.by = "build"
IsDeleteReq(e) == e.req.by = "delete"
BuildReqs(b) == SelectSeq(reqs[b], IsBuildReq)
DeleteReqs(b) == SelectSeq(reqs[b], IsDeleteReq)
Ops(log) == [i \in 1..Len(log) |-> log[i].req.op]
Sent(b, op) == \E i \in 1..Len(reqs[b]) : reqs[b][i].req.op = op
Failed(b, op) ==
    \E i \in 1..Len(reqs[b]) : reqs[b][i].req.op = op /\ ~reqs[b][i].ok
IsPrefix(s, t) == Len(s) <= Len(t) /\ s = SubSeq(t, 1, Len(s))
Stages(b) ==
    (IF builder[b].pull_on_build THEN <<"pull">> ELSE <<>>)
        \o <<"create", "start", "inspect">>
\* every stage of the pipeline was run and the runtime answered each with success
AllStagesSucceeded(b) ==
    /\ Ops(BuildReqs(b)) = Stages(b)
    /\ \A i \in 1..Len(BuildReqs(b)) : BuildReqs(b)[i].ok

\* ---- claims ------------------------------------------------------------------

\* the requests of build() are a prefix of the pipeline's stages, in order and
\* each at most once, and start and inspect carry the id create returned
RequestsInOrder(b) ==
    /\ IsPrefix(Ops(BuildReqs(b)), Stages(b))
    /\ \A i \in 1..Len(BuildReqs(b)) :
         BuildReqs(b)[i].req.op \in {"start", "inspect"}
            => createInfo[b] = Some(BuildReqs(b)[i].req.id)

\* C1: the requests build() sends are a prefix of [pull (when pull_on_build),
\* create, start, inspect], each issued at most once and only after the
\* preceding stage completed successfully, none skipped or reordered, start
\* and inspect addressed by the id create returned.
C1_RequestsFollowPipeline ==
    \A b \in Builds :
        /\ RequestsInOrder(b)
        /\ \A i \in 2..Len(BuildReqs(b)) : BuildReqs(b)[i - 1].ok

\* C2: when pull_on_build is true and the pull stream yields an error at any
\* position, build() fails with PullFailed and no create request is sent.
C2_PullErrorFailsBuild ==
    \A b \in Builds :
        (builder[b].pull_on_build /\ Failed(b, "pull") /\ pc[b] # "pull_next")
            => (result[b] = "PullFailed" /\ ~Sent(b, "create"))

\* C3: build() returns a Container if and only if every executed stage (pull
\* when enabled, create, start, inspect) succeeded; in every other run it
\* returns an error and no Container exists.
C3_HandleIffAllStagesSucceeded ==
    \A b \in Builds :
        /\ (container[b] # None) <=> (pc[b] = "returned" /\ AllStagesSucceeded(b))
        /\ (container[b] # None) <=> (result[b] = "Ok")
        /\ pc[b] = "returned" => result[b] # "pending"

\* the id of the Container build b returned, and of the container it created
HandleId(b) == Container_id(container[b][1])
CreatedId(b) == createInfo[b][1]

\* C4: delete() consumes the Container and issues exactly one removal request,
\* with force = true, addressed to the Container's id; unless the container
\* was removed out-of-band the call succeeds and the container is gone from
\* the runtime afterwards, whether it was running or not.
C4_DeleteRemovesHandleResource ==
    \A b \in Builds :
        /\ held[b] # "consumed" => DeleteReqs(b) = <<>>
        /\ held[b] = "consumed" =>
             /\ Len(DeleteReqs(b)) = 1
             /\ DeleteReqs(b)[1].req.op = "remove"
             /\ DeleteReqs(b)[1].req.force
             /\ DeleteReqs(b)[1].req.id = HandleId(b)
             /\ containers[HandleId(b)].removed_by # "out-of-band"
                  => /\ delResult[b] = "Ok"
                     /\ containers[HandleId(b)].state = "removed"

C4_Witness ==
    \E b \in Builds :
        /\ builder[b].pull_on_build
        /\ held[b] = "consumed"
        /\ delResult[b] = "Ok"
        /\ containers[HandleId(b)].removed_by = "layer"

\* C5: if the start stage fails, build() returns StartFailed, sends neither an
\* inspect nor a removal request, returns no Container, and the container stays
\* in the runtime as created, not running.
C5_StartFailureLeavesCreated ==
    \A b \in Builds :
        Failed(b, "start") =>
            /\ pc[b] = "returned"
            /\ result[b] = "StartFailed"
            /\ ~Sent(b, "inspect")
            /\ ~Sent(b, "remove")
            /\ container[b] = None
            /\ containers[CreatedId(b)].state = "created"

C5_Witness ==
    \E b \in Builds : Failed(b, "start") /\ result[b] = "StartFailed"

\* C6: if the inspect stage fails, build() returns InspectFailed and no
\* Container, sends no removal request, and the container stays running.
C6_InspectFailureLeavesRunning ==
    \A b \in Builds :
        Failed(b, "inspect") =>
            /\ pc[b] = "returned"
            /\ result[b] = "InspectFailed"
            /\ container[b] = None
            /\ held[b] = "none"
            /\ ~Sent(b, "remove")
            /\ containers[CreatedId(b)].state = "running"

C6_Witness ==
    \E b \in Builds : Failed(b, "inspect") /\ result[b] = "InspectFailed"

\* C7: dropping a Container without delete() sends no request and leaves the
\* runtime as it is, from then on; every removal request of this layer is one
\* that delete() sent.
C7_DropSendsNothing ==
    /\ [](\A b \in Builds :
            /\ \A i \in 1..Len(reqs[b]) :
                 reqs[b][i].req.op = "remove" => reqs[b][i].req.by = "delete"
            /\ held[b] = "dropped" => containers[HandleId(b)].removed_by # "layer")
    /\ [][\A b \in Builds :
            held'[b] = "dropped"
               => (reqs'[b] = reqs[b] /\ containers' = containers)]_vars

C7_Witness ==
    \E b \in Builds :
        held[b] = "dropped" /\ containers[HandleId(b)].state = "running"

\* C8: delete() on a Container whose container was removed out-of-band sends its
\* removal request and returns the runtime's error as DeleteFailed.
C8_DeleteOfRemovedFails ==
    \A b \in Builds :
        (held[b] = "consumed" /\ containers[HandleId(b)].removed_by = "out-of-band")
            => /\ delResult[b] = "DeleteFailed"
               /\ Len(DeleteReqs(b)) = 1
               /\ ~DeleteReqs(b)[1].ok

C8_Witness ==
    \E b \in Builds :
        /\ held[b] = "consumed"
        /\ containers[HandleId(b)].removed_by = "out-of-band"
        /\ delResult[b] = "DeleteFailed"

\* C9: with a first build that succeeded and whose container still exists, a
\* second build with the same name and slug_length = 0 fails with CreateFailed
\* on the name collision, sends neither start nor inspect, and leaves the
\* runtime, the first container included, as it was.
C9_NameCollisionFailsSecondBuild ==
    /\ [][\A b1, b2 \in Builds :
            ( /\ b1 # b2
              /\ result[b1] = "Ok"
              /\ Live(CreatedId(b1))
              /\ builder[b1].name # None
              /\ builder[b2].name = builder[b1].name
              /\ builder[b1].slug_length = 0
              /\ builder[b2].slug_length = 0
              /\ pc[b2] = "create_container"
              /\ pc'[b2] # pc[b2] )
            => ( /\ pc'[b2] = "returned"
                 /\ result'[b2] = "CreateFailed"
                 /\ createInfo'[b2] = None
                 /\ containers' = containers )]_vars
    /\ [](\A b \in Builds :
            result[b] = "CreateFailed"
               => (~Sent(b, "start") /\ ~Sent(b, "inspect") /\ pc[b] = "returned"))

C9_Witness ==
    \E b1, b2 \in Builds :
        /\ b1 # b2
        /\ result[b1] = "Ok"
        /\ containers[CreatedId(b1)].state = "running"
        /\ builder[b1].name # None
        /\ builder[b2].name = builder[b1].name
        /\ builder[b1].slug_length = 0
        /\ builder[b2].slug_length = 0
        /\ result[b2] = "CreateFailed"
        /\ reqs[b2][1].answer = "Conflict"

\* C10: the name in the create request is name, "_" and slug_length
\* alphanumeric characters when name is set and slug_length > 0, name itself
\* when name is set and slug_length = 0, and no name when name is unset; a
\* build generates at most one slug.
C10_EffectiveName ==
    \A b \in Builds :
        /\ slugCalls[b] <= 1
        /\ \A i \in 1..Len(reqs[b]) :
             reqs[b][i].req.op = "create" =>
               LET sent == reqs[b][i].req.name
                   self == builder[b]
               IN IF self.name = None THEN sent = None
                  ELSE IF self.slug_length = 0 THEN sent = Some(self.name[1])
                  ELSE /\ sent # None
                       /\ Len(sent[1]) = Len(self.name[1]) + 1 + self.slug_length
                       /\ SubSeq(sent[1], 1, Len(self.name[1])) = self.name[1]
                       /\ sent[1][Len(self.name[1]) + 1] = "_"
                       /\ \A k \in (Len(self.name[1]) + 2)..Len(sent[1]) :
                            sent[1][k] \in AlphanumericChars

C10_Witness ==
    \E b \in Builds :
        /\ Sent(b, "create")
        /\ builder[b].name = Some(<<"x">>)
        /\ builder[b].slug_length > 1
        /\ slugCalls[b] = 1

\* ---- C11 -------------------------------------------------------------------
\* the wire string of a protocol, as the runtime API documents it
WireString(protocol) ==
    CASE protocol = "Tcp" -> <<"t","c","p">>
      [] protocol = "Udp" -> <<"u","d","p">>

\* C11: k calls of expose followed by build() put exactly k port mappings in
\* the create request, in call order, each with the source port, the host port
\* and the wire string of the protocol of its call; repeated source ports are
\* all submitted.
C11_ExposedPortsSubmittedInOrder ==
    \A b \in Builds : \A i \in 1..Len(reqs[b]) :
        reqs[b][i].req.op = "create" =>
          LET sent == reqs[b][i].req.ports
              calls == given[b].exposes
          IN /\ Len(sent) = Len(calls)
             /\ \A k \in 1..Len(calls) :
                  /\ sent[k].source = calls[k].src_port
                  /\ sent[k].host = calls[k].host_port
                  /\ sent[k].protocol = WireString(calls[k].protocol)

C11_Witness ==
    /\ Sent(1, "create")
    /\ Len(given[1].exposes) = MaxPorts
    /\ given[1].exposes[1].src_port = given[1].exposes[2].src_port
    /\ given[1].exposes[1].protocol = "Udp"
    /\ given[1].exposes[2].protocol = "Tcp"

\* ---- C12 -------------------------------------------------------------------
\* C12: a builder made by new(image_name) and built as it is sends no pull
\* request, and its create request has image image_name:latest, no name, no
\* port mappings, no environment variables and no commands.
C12_DefaultBuilderRequests ==
    \A b \in Builds : \A img \in ImageNames :
        (pc[b] \notin {"new", "builder"} /\ builder[b] = ContainerBuilder_new(img)) =>
          /\ ~Sent(b, "pull")
          /\ \A i \in 1..Len(reqs[b]) :
               reqs[b][i].req.op = "create" =>
                 /\ reqs[b][i].req.image = img \o <<":","l","a","t","e","s","t">>
                 /\ reqs[b][i].req.name = None
                 /\ reqs[b][i].req.ports = <<>>
                 /\ reqs[b][i].req.env = <<>>
                 /\ reqs[b][i].req.cmd = <<>>

C12_Witness ==
    /\ pc[1] = "returned"
    /\ \E img \in ImageNames : builder[1] = ContainerBuilder_new(img)
    /\ given[1] = [tag |-> None, client |-> None, exposes |-> <<>>]
    /\ Ops(reqs[1]) = <<"create", "start", "inspect">>

\* ---- C13 -------------------------------------------------------------------
ErrorKinds ==
    {"PullFailed", "CreateFailed", "StartFailed", "InspectFailed", "DeleteFailed"}

\* C13: build() either returns a Container whose id() is not empty or fails
\* with one of the five error kinds; it never returns a Container with an
\* empty id.
C13_HandleIdNonEmptyOrError ==
    \A b \in Builds :
        /\ pc[b] = "returned" =>
              \/ /\ result[b] = "Ok"
                 /\ container[b] # None
                 /\ Container_id(container[b][1]) # <<>>
              \/ /\ result[b] \in ErrorKinds
                 /\ container[b] = None
        /\ container[b] # None => Container_id(container[b][1]) # <<>>

C13_Witness ==
    /\ pc[1] = "returned"
    /\ result[1] = "Ok"
    /\ Len(Container_id(container[1][1])) > 0

\* ---- C14 -------------------------------------------------------------------
\* a call of the configuration API on build b
SetterStep(b) ==
    \/ \E i \in ImageNames : new(b, i)
    \/ \E t \in Tags : tag(b, t)
    \/ \E n \in Names : name(b, n)
    \/ \E k \in 0..MaxSlug : slug_length(b, k)
    \/ \E call \in Exposes : expose(b, call)
    \/ \E env \in EnvVars : environment_variable(b, env)
    \/ \E cmds \in CommandLists : commands(b, cmds)
    \/ \E p \in BOOLEAN : pull_on_build(b, p)
    \/ \E c \in Clients : client(b, c)

\* what only I/O changes: the requests sent and the runtime's resources
RuntimeView == <<reqs, containers, networks, net>>

\* no request has been sent for build b and the runtime holds nothing
NoIO(b) ==
    /\ reqs[b] = <<>>
    /\ \A i \in ContainerIds : containers[i].state = "absent"
    /\ \A i \in NetworkIds : networks[i].state = "absent"

\* C14: only build() performs I/O. Until build() is called, whatever calls of
\* new, tag, name, slug_length, expose, environment_variable, commands,
\* pull_on_build and client were made, no request has been sent and the
\* runtime holds nothing; no such call, and no call of id() or ports_raw(),
\* sends a request or changes the runtime.
C14_OnlyBuildPerformsIO ==
    /\ [](pc[1] \in {"new", "builder"} => NoIO(1))
    /\ [][(SetterStep(1) \/ get_id(1) \/ get_ports_raw(1))
             => UNCHANGED RuntimeView]_vars
    /\ [][pc[1] \in {"new", "builder"} /\ pc'[1] = pc[1]
             => UNCHANGED RuntimeView]_vars
    /\ [][held[1] = "held" /\ held'[1] = "held" => UNCHANGED RuntimeView]_vars

C14_Witness ==
    /\ pc[1] = "builder"
    /\ given[1].tag # None
    /\ given[1].client # None
    /\ Len(builder[1].ports) = MaxPorts
    /\ builder[1].name # None
    /\ builder[1].slug_length > 0
    /\ builder[1].environment_variables # <<>>
    /\ builder[1].commands # <<>>
    /\ builder[1].pull_on_build
    /\ NoIO(1)

\* ---- C15 -------------------------------------------------------------------
NetBuildReqs(b) == SelectSeq(net[b].reqs, IsBuildReq)
NetDeleteReqs(b) == SelectSeq(net[b].reqs, LAMBDA e : e.req.op = "network_delete")

\* C15: NetworkBuilder::build() sends exactly one request, a network create
\* with the configured name, and no start or inspect; on success the Network's
\* id() is the identifier create returned, on failure there is no Network.
C15_NetworkBuildIsOneCreate ==
    \A b \in Builds :
        /\ net[b].pc \in {"new", "builder"} =>
              net[b].reqs = <<>> /\ net[b].network = None
        /\ net[b].pc = "returned" =>
              /\ Len(NetBuildReqs(b)) = 1
              /\ NetBuildReqs(b)[1].req.op = "network_create"
              /\ NetBuildReqs(b)[1].req.name = net[b].builder[1].options.name
              /\ IF NetBuildReqs(b)[1].ok
                 THEN /\ net[b].result = "Ok"
                      /\ net[b].network # None
                      /\ net[b].create_info # None
                      /\ Network_id(net[b].network[1]) = net[b].create_info[1]
                      /\ networks[net[b].create_info[1]].name
                           = net[b].builder[1].options.name
                 ELSE /\ net[b].result = "CreateFailed"
                      /\ net[b].network = None
                      /\ net[b].held = "none"

C15_Witness ==
    \E b, b2 \in Builds :
        /\ net[b].pc = "returned" /\ net[b].result = "Ok"
        /\ Network_id(net[b].network[1]) \in NetworkIds
        /\ net[b].builder[1].options.name = <<"n","e","t">>
        /\ net[b2].pc = "returned" /\ net[b2].result = "CreateFailed"

\* ---- C16 -------------------------------------------------------------------
\* what holds of delete and drop whether or not the removal is forced
NetworkTeardown(b) ==
    /\ net[b].held = "consumed" =>
          /\ Len(NetDeleteReqs(b)) = 1
          /\ NetDeleteReqs(b)[1].req.by = "delete"
          /\ NetDeleteReqs(b)[1].req.id = Network_id(net[b].network[1])
    /\ net[b].held \in {"held", "dropped"} =>
          /\ NetDeleteReqs(b) = <<>>
          /\ networks[Network_id(net[b].network[1])].removed_by # "layer"

TagGiven(b) ==
    IF given[b].tag = None THEN <<"l","a","t","e","s","t">> ELSE given[b].tag[1]

\* the pull and create requests of build b carry image_name:image_tag with
\* the tag of build b
ImageSubmitted(b) ==
    \A i \in 1..Len(reqs[b]) :
        reqs[b][i].req.op \in {"pull", "create"} =>
          reqs[b][i].req.image = builder[b].image_name \o <<":">> \o TagGiven(b)

\* C17 as stated: in every builder state image_tag is not empty, and the image
\* of the pull and create requests is image_name:image_tag with the last tag
\* set, "latest" if none was.
C17_ImageTagNonEmpty ==
    \A b \in Builds :
        pc[b] # "new" =>
          /\ builder[b].image_tag # <<>>
          /\ ImageSubmitted(b)

\* C17, amended: image_tag is the last string given to tag, whatever it is
\* (the empty string too), and "latest" if tag was never called; the image of
\* the pull and create requests is image_name:image_tag.
C17_ImageTagAsGiven ==
    \A b \in Builds :
        pc[b] # "new" =>
          /\ builder[b].image_tag = TagGiven(b)
          /\ given[b].tag \notin {Some(<<>>)} => builder[b].image_tag # <<>>
          /\ ImageSubmitted(b)

C17_Witness ==
    /\ given[1].tag = Some(<<>>)
    /\ Ops(reqs[1]) = <<"pull", "create">>
    /\ reqs[1][2].req.image = <<"a","l","p","i","n","e",":">>

\* ---- C18 -------------------------------------------------------------------
\* every item of the pull stream of build b has been read
Drained(b) == pos[b] = Len(stream[b])

\* C18: with pull_on_build, the pull stage reads the progress stream to its
\* end before the pipeline goes on: the create request is sent only after
\* every item of the stream was read.
C18_PullStreamDrainedBeforeCreate ==
    \A b \in Builds :
        (builder[b].pull_on_build /\ Sent(b, "create")) => Drained(b)

\* ---- C19 -------------------------------------------------------------------
\* the state of a resource as this layer sees it: whether a running
\* container's process has ended is not something the layer observes
LayerState(c) ==
    CASE c.state = "absent" -> "absent"
      [] c.state = "created" -> "created"
      [] c.state \in {"running", "exited"} -> "running"
      [] c.state = "removed" -> "deleted"

Edges ==
    { <<"absent", "created">>, <<"created", "running">>, <<"running", "deleted">> }

\* a step in which the layer sent a request
LayerStep == reqs' # reqs

\* the request sent in a layer step of build b
LastReq(b) == reqs'[b][Len(reqs'[b])].req

\* C19: as driven by this layer a resource goes absent -> created -> running
\* -> deleted and makes no other transition; a start request is sent only for
\* the resource this build created; a removal request is sent only by
\* delete() on a Container; build() never sends a removal request.
C19_ResourceStateMachine ==
    /\ [][LayerStep =>
            \A id \in ContainerIds :
               LayerState(containers'[id]) # LayerState(containers[id]) =>
                 /\ <<LayerState(containers[id]), LayerState(containers'[id])>>
                      \in Edges
                 /\ LayerState(containers'[id]) = "deleted" =>
                      \E b \in Builds :
                         /\ held[b] = "held" /\ held'[b] = "consumed"
                         /\ LastReq(b).op = "remove" /\ LastReq(b).by = "delete"
                         /\ LastReq(b).id = id]_vars
    /\ [](\A b \in Builds : \A i \in 1..Len(reqs[b]) :
            /\ reqs[b][i].req.op = "start" =>
                 /\ createInfo[b] = Some(reqs[b][i].req.id)
                 /\ \E j \in 1..(i - 1) :
                      reqs[b][j].req.op = "create" /\ reqs[b][j].ok
            /\ reqs[b][i].req.op = "remove" =>
                 /\ reqs[b][i].req.by = "delete"
                 /\ held[b] = "consumed"
                 /\ reqs[b][i].req.id = Container_id(container[b][1])
            /\ reqs[b][i].req.by = "build" =>
                 reqs[b][i].req.op \in {"pull", "create", "start", "inspect"})

C19_Witness ==
    /\ Ops(reqs[1]) = <<"create", "start", "inspect", "remove">>
    /\ held[1] = "consumed"
    /\ LayerState(containers[Container_id(container[1][1])]) = "deleted"
    /\ containers[Container_id(container[1][1])].removed_by = "layer"

\* ---- C20 -------------------------------------------------------------------
\* the client build b holds when build() is called: the last one given to
\* client, the shared instance if none was
ClientAtBuild(b) ==
    IF given[b].client = None THEN CLIENT[1] ELSE given[b].client[1]

\* C20: the client a builder holds at build(), the shared instance unless
\* client(c) was called and then the last c, receives every request of that
\* build and is the client of the returned Container, so delete() goes to the
\* client that created the resource; builders that never call client(c) use
\* the same shared instance, which is constructed once.
C20_OneClientPerBuild ==
    /\ Len(CLIENT) <= 1
    /\ \A b \in Builds :
         pc[b] # "new" =>
           /\ builder[b].client = ClientAtBuild(b)
           /\ \A i \in 1..Len(reqs[b]) : reqs[b][i].req.client = ClientAtBuild(b)
           /\ container[b] # None => container[b][1].client = ClientAtBuild(b)
    /\ \A b, b2 \in Builds :
         (pc[b] # "new" /\ pc[b2] # "new"
            /\ given[b].client = None /\ given[b2].client = None) =>
           builder[b].client = builder[b2].client

C20_Witness ==
    \E b, b2 \in Builds :
        /\ b # b2
        /\ given[b].client = None
        /\ given[b2].client # None
        /\ Ops(reqs[b]) = <<"create", "start", "inspect", "remove">>
        /\ Ops(reqs[b2]) = <<"create", "start", "inspect", "remove">>
        /\ reqs[b][4].req.client # reqs[b2][4].req.client

\* ---- C21 -------------------------------------------------------------------
\* C21: when several build() calls run concurrently against a shared client,
\* under every interleaving of their stages the start and inspect requests of
\* a build target only the id its own create returned, the id() of each
\* returned Container is the id its own build's create returned, Containers
\* of distinct successful builds have distinct ids, and delete() on one
\* Container never removes the resource of another build.
C21_BuildsKeepTheirOwnIds ==
    /\ \A b \in Builds : \A i \in 1..Len(reqs[b]) :
         reqs[b][i].req.op \in {"start", "inspect", "remove"} =>
           /\ createInfo[b] # None
           /\ reqs[b][i].req.id = CreatedId(b)
    /\ \A b \in Builds :
         container[b] # None =>
           /\ createInfo[b] # None
           /\ HandleId(b) = CreatedId(b)
    /\ \A b, b2 \in Builds :
         (b # b2 /\ createInfo[b] # None /\ createInfo[b2] # None) =>
           CreatedId(b) # CreatedId(b2)
    /\ \A b, b2 \in Builds :
         (b # b2 /\ container[b] # None /\ container[b2] # None) =>
           HandleId(b) # HandleId(b2)
    /\ \A b \in Builds :
         (createInfo[b] # None /\ containers[CreatedId(b)].state = "removed") =>
           /\ held[b] = "consumed"
           /\ \E i \in 1..Len(reqs[b]) :
                /\ reqs[b][i].req.op = "remove" /\ reqs[b][i].ok
                /\ reqs[b][i].req.id = CreatedId(b)

C21_Witness ==
    \E b, b2 \in Builds :
        /\ b # b2
        /\ builder[b].client = builder[b2].client
        /\ held[b] = "consumed" /\ delResult[b] = "Ok"
        /\ containers[HandleId(b)].state = "removed"
        /\ held[b2] = "held"
        /\ containers[HandleId(b2)].state = "running"
        /\ HandleId(b) = DockerId(2)
        /\ HandleId(b2) = DockerId(1)

====
